---- MODULE Spec2Model ----
(***************************************************************************)
(* Model of Tribler's MetadataStore (Core/Modules/MetadataStore/store.py): *)
(* process_payload, update_channel_info, the mdblob readers and            *)
(* process_channel_dir, over a store of ChannelNode rows.                  *)
(***************************************************************************)
EXTENDS Integers, Sequences, FiniteSets, TLC

(* ------------------------------ bounds -------------------------------- *)

\* Largest timestamp / blob sequence number of the model.
MaxTs == 10
\* Number of consecutive timestamps below MaxTs that are also in use.
TsSpan == 2
\* Largest number of records in one blob file.
MaxRecs == 2

\* Largest number of replays of one directory of known content.
MaxReplays == 2
\* Largest wall-clock time, in the unit of time2int, at which a clock object is made.
MaxWall == 2
\* Largest number of clock objects made (the first one and the restarts).
MaxObjects == 2
\* Largest number of calls of tick.
MaxTicks == 3

Timestamps == (MaxTs - TsSpan)..MaxTs
PayloadTimestamps == (MaxTs - 1)..MaxTs
StartTimestamps == {0, MaxTs - TsSpan}
\* The keys that sign entries, and those among them that own a channel.
PublicKeys == {1, 2}
ChannelKeys == {1}
OriginIds == {0}

(* ------------------------ status codes (store.py) ---------------------- *)

UNKNOWN_CHANNEL == 1
UPDATED_OUR_VERSION == 2
GOT_SAME_VERSION == 3
GOT_NEWER_VERSION == 4
UNKNOWN_TORRENT == 5
NO_ACTION == 6
DELETED_METADATA == 7

(* ------------------------------ payloads ------------------------------- *)

REGULAR_TORRENT == "REGULAR_TORRENT"
CHANNEL_TORRENT == "CHANNEL_TORRENT"
DELETED == "DELETED"

NoSig == <<>>

\* A signature is over the serialized content and the author's key: two
\* payloads carry the same signature only if they have the same content.
Sign(type, pk, id, origin, ts, start, del) ==
    <<type, pk, id, origin, ts, start, del>>

MkPayload(type, pk, id, origin, ts, start, del) ==
    [metadata_type |-> type, public_key |-> pk, id_ |-> id, origin_id |-> origin,
     timestamp |-> ts, start_timestamp |-> start, delete_signature |-> del,
     signature |-> Sign(type, pk, id, origin, ts, start, del)]

TorrentPayloads ==
    {MkPayload(REGULAR_TORRENT, pk, 0, o, ts, 0, NoSig) :
        pk \in PublicKeys, o \in OriginIds, ts \in PayloadTimestamps}

ChannelPayloads ==
    {MkPayload(CHANNEL_TORRENT, pk, 0, 0, ts, st, NoSig) :
        pk \in ChannelKeys, ts \in PayloadTimestamps, st \in StartTimestamps}

DeletedPayloads ==
    {MkPayload(DELETED, pk, 0, 0, MaxTs, 0, t.signature) :
        pk \in PublicKeys, t \in TorrentPayloads \cup ChannelPayloads}

Payloads == TorrentPayloads \cup ChannelPayloads \cup DeletedPayloads

(* ------------------------------ the store ------------------------------ *)

\* ChannelNode.from_payload / ChannelMetadata.from_payload: cls(**payload.to_dict());
\* local_version takes its default.
FromPayload(p) ==
    [metadata_type |-> p.metadata_type, public_key |-> p.public_key,
     id_ |-> p.id_, origin_id |-> p.origin_id, timestamp |-> p.timestamp,
     start_timestamp |-> p.start_timestamp, local_version |-> 0,
     signature |-> p.signature]

\* channel.set(**ChannelMetadataPayload.to_dict(payload)): every field the payload
\* carries is overwritten; local_version is not a payload field.
SetFromPayload(row, p) ==
    [row EXCEPT !.metadata_type = p.metadata_type, !.public_key = p.public_key,
                !.id_ = p.id_, !.origin_id = p.origin_id, !.timestamp = p.timestamp,
                !.start_timestamp = p.start_timestamp, !.signature = p.signature]

\* The rows of the ChannelMetadata entity.
ChannelRows(s) == {r \in s : r.metadata_type = CHANNEL_TORRENT}

\* ChannelMetadata.get(public_key=pk): the matching rows (get returns the row,
\* or None when there is none).
GetChannel(s, pk) == {r \in ChannelRows(s) : r.public_key = pk}

\* ChannelMetadata.get(public_key=pk, id_=id)
GetChannelById(s, pk, id) == {r \in GetChannel(s, pk) : r.id_ = id}

\* As SignatureExists, finding nothing: the check of line 219 left out.
SignatureNeverExists(s, sig) == FALSE

\* As SignatureExists, looking among the channel descriptors only.
SignatureExistsAmongChannels(s, sig) ==
    \E r \in ChannelRows(s) : r.signature = sig

\* ChannelNode.exists(signature=sig)
SignatureExists(s, sig) == \E r \in s : r.signature = sig

\* ChannelNode.get(signature=sig, public_key=pk)
GetBySignature(s, sig, pk) == {r \in s : r.signature = sig /\ r.public_key = pk}

(* --------------------------- update_channel_info ----------------------- *)

\* As UpdateChannelInfo, with >= for > in the first comparison: a payload of the
\* descriptor's own timestamp overwrites it.
UpdateChannelInfoOnEqual(s, p) ==
    LET found == GetChannel(s, p.public_key) IN
    IF found # {}
    THEN LET channel == CHOOSE r \in found : TRUE IN
         IF p.timestamp >= channel.timestamp
         THEN [store |-> (s \ {channel}) \cup {SetFromPayload(channel, p)},
               out |-> UPDATED_OUR_VERSION]
         ELSE [store |-> s, out |-> GOT_NEWER_VERSION]
    ELSE [store |-> s \cup {FromPayload(p)}, out |-> UNKNOWN_CHANNEL]

UpdateChannelInfo(s, p) ==
    LET found == GetChannel(s, p.public_key) IN
    IF found # {}
    THEN LET channel == CHOOSE r \in found : TRUE IN
         IF p.timestamp > channel.timestamp
         THEN [store |-> (s \ {channel}) \cup {SetFromPayload(channel, p)},
               out |-> UPDATED_OUR_VERSION]
         ELSE IF p.timestamp = channel.timestamp
         THEN [store |-> s, out |-> GOT_SAME_VERSION]
         ELSE [store |-> s, out |-> GOT_NEWER_VERSION]
    ELSE [store |-> s \cup {FromPayload(p)}, out |-> UNKNOWN_CHANNEL]

(* ------------------------------ process_payload ------------------------ *)

\* As IsStale, with < for <= in the comparison with local_version.
IsStaleStrict(s, p) ==
    \E channel \in GetChannelById(s, p.public_key, p.origin_id) :
        channel.local_version # 0 /\ p.timestamp < channel.local_version

\* As IsStale, with the test left out.
IsStaleNever(s, p) == FALSE

\* The stale-entry test of process_payload (lines 237-238).
IsStale(s, p) ==
    \E channel \in GetChannelById(s, p.public_key, p.origin_id) :
        channel.local_version # 0 /\ p.timestamp <= channel.local_version

\* As DeleteTargets, with the public_key argument of the lookup left out.
DeleteTargetsAnyKey(s, p) == {r \in s : r.signature = p.delete_signature}

\* The rows a DELETED payload removes (lines 224-227).
DeleteTargets(s, p) == GetBySignature(s, p.delete_signature, p.public_key)

ProcessPayload(s, p) ==
    IF SignatureExists(s, p.signature)
    THEN [store |-> s, out |-> GOT_SAME_VERSION]
    ELSE IF p.metadata_type = DELETED
    THEN IF DeleteTargets(s, p) # {}
         THEN [store |-> s \ DeleteTargets(s, p), out |-> DELETED_METADATA]
         ELSE [store |-> s, out |-> NO_ACTION]
    ELSE IF IsStale(s, p)
    THEN [store |-> s, out |-> NO_ACTION]
    ELSE IF p.metadata_type = REGULAR_TORRENT
    THEN [store |-> s \cup {FromPayload(p)}, out |-> UNKNOWN_TORRENT]
    ELSE IF p.metadata_type = CHANNEL_TORRENT
    THEN UpdateChannelInfo(s, p)
    ELSE [store |-> s, out |-> NO_ACTION]

(* ------------------------------ blob files ----------------------------- *)

\* process_payload(p) with outcome out wrote p's signature into a row (from_payload
\* or set) while a row of s carried that signature already. The store is a set of
\* rows: this is how a second row of the same signature is seen.
WritesDuplicate(s, p, out) ==
    /\ out \in {UNKNOWN_TORRENT, UNKNOWN_CHANNEL, UPDATED_OUR_VERSION}
    /\ \E r \in s : r.signature = p.signature

\* A db_session in progress: the rows as the session sees them, the keys of
\* the channel rows it has deleted (their objects are dead for the rest of the
\* session, also when a later payload inserts a row for the same key), and
\* whether it has written a signature that a row carried already.
Session(s) == [store |-> s, gone |-> {}, dup |-> FALSE]

\* One record of a chunk whose signature verifies: read_payload_with_offset
\* returns it and process_payload is applied.
ApplyPayload(ses, p) ==
    LET r == ProcessPayload(ses.store, p) IN
    [store |-> r.store,
     gone |-> ses.gone \cup {x.public_key : x \in ChannelRows(ses.store \ r.store)
                                                   \cap DeleteTargets(ses.store, p)},
     dup |-> ses.dup \/ WritesDuplicate(ses.store, p, r.out)]

\* The while loop of process_squashed_mdblob, for every chunk of at most n more
\* records, from the sessions in S: the data ends here and the function returns
\* (exc "none"); or read_payload_with_offset raises at the next record,
\* InvalidSignatureException for a record whose signature does not verify and an
\* unpacking error for bytes that are no record; or the next record is a payload
\* of P, process_payload takes it and the loop goes on.
RECURSIVE SquashedLoop(_, _, _)
SquashedLoop(S, P, n) ==
    {[store |-> ses.store, gone |-> ses.gone, dup |-> ses.dup, exc |-> "none"] :
        ses \in S}
    \cup IF n = 0 THEN {}
         ELSE {[store |-> ses.store, gone |-> ses.gone, dup |-> ses.dup, exc |-> e] :
                  ses \in S, e \in {"InvalidSignatureException", "struct.error"}}
              \cup SquashedLoop({ApplyPayload(ses, p) : ses \in S, p \in P}, P, n - 1)

\* process_squashed_mdblob, in a session that sees the rows s: what it can leave,
\* for every chunk of at most n records.
ProcessSquashedMdblob(s, P, n) == SquashedLoop({Session(s)}, P, n)

\* process_compressed_mdblob: lz4.frame.decompress raises RuntimeError for bytes
\* that are no lz4 frame, and gives the chunk otherwise.
ProcessCompressedMdblob(s, P, n) ==
    {[store |-> s, gone |-> {}, dup |-> FALSE, exc |-> "RuntimeError"]}
    \cup ProcessSquashedMdblob(s, P, n)

\* process_mdblob_file: by the file's extension.
ProcessMdblobFile(s, lz4, P, n) ==
    IF lz4 THEN ProcessCompressedMdblob(s, P, n) ELSE ProcessSquashedMdblob(s, P, n)

(* ------------------------------ file names ----------------------------- *)

\* str(n): the decimal digits of n, as character codes ("0" is 48).
RECURSIVE Str(_)
Str(n) == IF n < 10 THEN <<48 + n>> ELSE Str(n \div 10) \o <<48 + (n % 10)>>

\* The name of blob n up to and including the dot of its extension ("." is 46);
\* what follows the dot is the same text for every blob of a kind.
FileName(n) == Str(n) \o <<46>>

\* int(digits)
RECURSIVE ParseInt(_)
ParseInt(digits) ==
    IF digits = <<>> THEN 0
    ELSE 10 * ParseInt(SubSeq(digits, 1, Len(digits) - 1)) + (digits[Len(digits)] - 48)

\* int(filename[:-len(BLOB_EXTENSION)])
BlobSequenceNumber(filename) == ParseInt(SubSeq(filename, 1, Len(filename) - 1))

\* Python's < on two strings: the first differing character decides, and a proper
\* prefix is smaller.
RECURSIVE StrLess(_, _)
StrLess(a, b) ==
    IF b = <<>> THEN FALSE
    ELSE IF a = <<>> THEN TRUE
    ELSE IF Head(a) # Head(b) THEN Head(a) < Head(b)
    ELSE StrLess(Tail(a), Tail(b))

\* The order sorted() puts two file names in.
NameLess(a, b) == StrLess(a, b)

\* sorted(os.listdir(dirname))
RECURSIVE Sorted(_)
Sorted(names) ==
    IF names = {} THEN <<>>
    ELSE LET m == CHOOSE x \in names : \A y \in names : x = y \/ NameLess(x, y)
         IN <<m>> \o Sorted(names \ {m})

(* ------------------------- process_channel_dir ------------------------- *)

\* As Gated, without the test against local_version.
GatedNoCursor(blob_sequence_number, channel) ==
    \/ blob_sequence_number <= channel.start_timestamp
    \/ blob_sequence_number > channel.timestamp

\* As Gated, without the test against timestamp.
GatedNoCeiling(blob_sequence_number, channel) ==
    \/ blob_sequence_number <= channel.start_timestamp
    \/ blob_sequence_number <= channel.local_version

\* As Gated, with < for <= in the test against local_version.
GatedStrict(blob_sequence_number, channel) ==
    \/ blob_sequence_number <= channel.start_timestamp
    \/ blob_sequence_number < channel.local_version
    \/ blob_sequence_number > channel.timestamp

\* The skip test of process_channel_dir (lines 176-178).
Gated(blob_sequence_number, channel) ==
    \/ blob_sequence_number <= channel.start_timestamp
    \/ blob_sequence_number <= channel.local_version
    \/ blob_sequence_number > channel.timestamp

\* As Caught, catching nothing.
CaughtNothing(exc) == FALSE

\* except InvalidSignatureException (line 184): the exceptions of
\* process_mdblob_file that the loop body catches.
Caught(exc) == exc = "InvalidSignatureException"

\* As SetLocalVersion, with the assignment left out.
LocalVersionNotSet(s, pk, v) == s

\* channel.local_version = blob_sequence_number
SetLocalVersion(s, pk, v) ==
    {IF r \in GetChannel(s, pk) THEN [r EXCEPT !.local_version = v] ELSE r : r \in s}

(* ----------------------- files of known content ------------------------ *)

\* The while loop of process_squashed_mdblob on a chunk that holds the payloads
\* recs: process_payload is applied to each in turn.
RECURSIVE ReadRecords(_, _)
ReadRecords(ses, recs) ==
    IF recs = <<>> THEN ses
    ELSE ReadRecords(ApplyPayload(ses, Head(recs)), Tail(recs))

\* process_mdblob_file on a file f of known content, in a session that sees the
\* rows s: f.recs are its records whose signatures verify, and f.end is what
\* follows them: the end of the data ("none"), or a record that makes
\* read_payload_with_offset raise; "RuntimeError" is a file that
\* lz4.frame.decompress refuses.
ReadFile(s, f) ==
    IF f.end = "RuntimeError"
    THEN [store |-> s, gone |-> {}, dup |-> FALSE, exc |-> "RuntimeError"]
    ELSE LET ses == ReadRecords(Session(s), f.recs) IN
         [store |-> ses.store, gone |-> ses.gone, dup |-> ses.dup, exc |-> f.end]

\* What process_payload returns (its second component) for each of recs in turn.
RECURSIVE Outcomes(_, _)
Outcomes(s, recs) ==
    IF recs = <<>> THEN <<>>
    ELSE LET r == ProcessPayload(s, Head(recs)) IN
         <<r.out>> \o Outcomes(r.store, Tail(recs))

(* ------------------------------- state --------------------------------- *)

VARIABLES
    store,      \* the committed ChannelNode rows
    pc,         \* "idle", or "replay" inside process_channel_dir
    channel_id, \* process_channel_dir's channel_id
    listing,    \* sorted(os.listdir(dirname)) of the replay
    pos,        \* index in listing of the next file of the loop
    failed,     \* sequence numbers of the files of this replay that raised
                \* InvalidSignatureException
    last,       \* the last step made and what came of it
    revoked,    \* history: the entries a tombstone deleted while their channel's
                \* local_version covered them, the channel being there since
    dir,        \* the files of the directory whose content is known, by sequence
                \* number; a file that is not in it may hold anything
    hist,       \* history of the replays of dir: the store they started from,
                \* what each file's payloads came to, how each replay ended
    clock,      \* DiscreteClock.clock of the clock object in use
    value,      \* the value of the "discrete_clock" row of the datastore as
                \* character codes, <<>> when there is no such row
    cpc,        \* "none": no clock object yet; "new": constructed, init_clock
                \* not yet called; "ready"
    tpc,        \* where each thread is in tick
    reg,        \* each thread's operand stack inside self.clock += 1
    ticks       \* history: what tick returned and what it wrote

svars == <<store, pc, channel_id, listing, pos, failed, last, revoked>>
dvars == <<dir, hist>>
cvars == <<clock, value, cpc, tpc, reg, ticks>>
vars == <<store, pc, channel_id, listing, pos, failed, last, revoked,
          dir, hist, clock, value, cpc, tpc, reg, ticks>>

Threads == {1, 2}

\* The store and the replay driver after MetadataStore.__init__ on a new database.
StoreInit ==
    /\ store = {}
    /\ pc = "idle"
    /\ channel_id = 0
    /\ listing = <<>>
    /\ pos = 1
    /\ failed = {}
    /\ last = [op |-> "init"]
    /\ revoked = {}

\* No directory of known content.
NoDir == dir = <<>> /\ hist = <<>>

\* No clock object.
NoClock ==
    /\ clock = 0
    /\ value = <<>>
    /\ cpc = "none"
    /\ tpc = [t \in Threads |-> "idle"]
    /\ reg = [t \in Threads |-> 0]
    /\ ticks = [returned |-> <<>>, written |-> <<>>, objects |-> 0, seed |-> 0,
                calls |-> 0]

Init == StoreInit /\ NoDir /\ NoClock

\* The keys whose channel descriptor a step from the rows s to the rows t removed.
Removed(s, t) == {c.public_key : c \in {x \in ChannelRows(s) : GetChannel(t, x.public_key) = {}}}

\* revoked after a step from the rows s to the rows t in which the channel
\* descriptors of the keys gone were deleted: the entries the step deleted that
\* their channel's committed local_version covered are added, and the entries of
\* a channel that was deleted or is not there are dropped.
Revoke(rv, s, t, gone) ==
    LET covered == {x \in s \ t :
                      /\ x.metadata_type # CHANNEL_TORRENT
                      /\ \E c \in GetChannelById(s, x.public_key, x.origin_id) :
                            c.local_version # 0 /\ x.timestamp <= c.local_version}
    IN  {x \in rv \cup covered :
            /\ x.public_key \notin gone
            /\ GetChannelById(t, x.public_key, x.origin_id) # {}}

\* A caller invokes process_payload(p).
ProcessPayloadCall ==
    /\ pc = "idle"
    /\ \E p \in Payloads :
        LET r == ProcessPayload(store, p) IN
        /\ store' = r.store
        /\ last' = [op |-> "payload", payload |-> p, out |-> r.out,
                    again |-> last.op = "payload" /\ last.payload = p,
                    dup |-> WritesDuplicate(store, p, r.out)]
    /\ revoked' = Revoke(revoked, store, store', Removed(store, store'))
    /\ UNCHANGED <<pc, channel_id, listing, pos, failed>>
    /\ UNCHANGED <<dvars, cvars>>

\* process_channel_dir(dirname, c) up to its loop: the channel exists (the
\* caller's precondition) and the directory, which holds a file for each of
\* seqs, is listed and sorted.
ListDir(c, seqs) ==
    /\ pc = "idle"
    /\ GetChannel(store, c) # {}
    /\ channel_id' = c
    /\ listing' = Sorted({FileName(n) : n \in seqs})
    /\ pc' = "replay"
    /\ pos' = 1
    /\ failed' = {}
    /\ last' = [op |-> "start"]
    /\ UNCHANGED store

\* process_channel_dir is called on some directory.
ReplayStart ==
    /\ \E c \in PublicKeys, seqs \in SUBSET Timestamps : ListDir(c, seqs)
    /\ UNCHANGED <<revoked, dvars, cvars>>

\* process_channel_dir ends: by returning after the loop, or by an exception.
Return ==
    /\ pc' = "idle"
    /\ channel_id' = 0
    /\ listing' = <<>>
    /\ pos' = 1
    /\ failed' = {}

\* What process_mdblob_file can leave for the file of sequence number seq, in a
\* session that sees the rows s: by the file's content when it is known, and
\* otherwise for every content of at most MaxRecs records of Payloads.
FileOutcomes(s, seq) ==
    IF seq \in DOMAIN dir
    THEN {ReadFile(s, dir[seq])}
    ELSE UNION {ProcessMdblobFile(s, lz4, Payloads, MaxRecs) : lz4 \in BOOLEAN}

\* One iteration of the loop: one db_session. An exception caught inside the
\* session leaves it to commit what was done; one that leaves the session rolls
\* it back and ends process_channel_dir.
LoopBody ==
    /\ pc = "replay"
    /\ pos <= Len(listing)
    /\ LET filename == listing[pos]
           seq == BlobSequenceNumber(filename)
           found == GetChannel(store, channel_id)
       IN
       IF found = {}
       THEN /\ Return
            /\ last' = [op |-> "file", seq |-> seq, res |-> "aborted",
                        exc |-> "AttributeError", left |-> Len(listing) - pos,
                        gone |-> {}, from |-> 0, dup |-> FALSE]
            /\ UNCHANGED store
       ELSE LET channel == CHOOSE r \in found : TRUE IN
            IF Gated(seq, channel)
            THEN /\ pos' = pos + 1
                 /\ last' = [op |-> "file", seq |-> seq, res |-> "skipped",
                             exc |-> "none", left |-> Len(listing) - pos,
                             gone |-> {}, from |-> channel.local_version,
                             dup |-> FALSE]
                 /\ UNCHANGED <<store, pc, channel_id, listing, failed>>
            ELSE \E r \in FileOutcomes(store, seq) :
                 IF r.exc = "none" /\ channel_id \notin r.gone
                 THEN /\ store' = SetLocalVersion(r.store, channel_id, seq)
                      /\ pos' = pos + 1
                      /\ last' = [op |-> "file", seq |-> seq, res |-> "ingested",
                                  exc |-> "none", left |-> Len(listing) - pos,
                                  gone |-> r.gone,
                                  from |-> channel.local_version, dup |-> r.dup]
                      /\ UNCHANGED <<pc, channel_id, listing, failed>>
                 ELSE IF Caught(r.exc)
                 THEN /\ store' = r.store
                      /\ pos' = pos + 1
                      /\ failed' = failed \cup {seq}
                      /\ last' = [op |-> "file", seq |-> seq, res |-> "failed",
                                  exc |-> r.exc, left |-> Len(listing) - pos,
                                  gone |-> r.gone,
                                  from |-> channel.local_version, dup |-> r.dup]
                      /\ UNCHANGED <<pc, channel_id, listing>>
                 ELSE /\ Return
                      /\ last' = [op |-> "file", seq |-> seq, res |-> "aborted",
                                  exc |-> IF r.exc = "none"
                                          THEN "OperationWithDeletedObjectError"
                                          ELSE r.exc,
                                  left |-> Len(listing) - pos, gone |-> {},
                                  from |-> channel.local_version, dup |-> FALSE]
                      /\ UNCHANGED store

\* The loop of process_channel_dir takes the next file of the listing.
ReplayFile ==
    /\ LoopBody
    /\ revoked' = Revoke(revoked, store, store', last'.gone)
    /\ UNCHANGED <<dvars, cvars>>

\* The loop is over: process_channel_dir returns.
LoopEnd ==
    /\ pc = "replay"
    /\ pos > Len(listing)
    /\ Return
    /\ last' = [op |-> "end"]
    /\ UNCHANGED store

ReplayEnd == LoopEnd /\ UNCHANGED <<revoked, dvars, cvars>>

Next == ProcessPayloadCall \/ ReplayStart \/ ReplayFile \/ ReplayEnd

Spec == Init /\ [][Next]_vars

(* -------------------- replays of a known directory --------------------- *)

DirTorrent(pk, ts) == MkPayload(REGULAR_TORRENT, pk, 0, 0, ts, 0, NoSig)
DirChannel(pk, ts, start) == MkPayload(CHANNEL_TORRENT, pk, 0, 0, ts, start, NoSig)
DirTombstone(pk, target) == MkPayload(DELETED, pk, 0, 0, MaxTs, 0, target.signature)

\* The key whose channel the directory belongs to, and another key.
DirOwner == CHOOSE k \in ChannelKeys : TRUE
OtherKey == CHOOSE k \in PublicKeys \ ChannelKeys : TRUE

\* Stores a replay can start from: the owner's descriptor as from_payload made
\* it, alone or with the descriptor and a torrent of another key's channel.
SmallStores ==
    {{FromPayload(DirChannel(DirOwner, ts, 0))} : ts \in PayloadTimestamps}
    \cup {{FromPayload(DirChannel(DirOwner, MaxTs - 1, 0)),
           FromPayload(DirChannel(OtherKey, MaxTs - 1, 0)),
           FromPayload(DirTorrent(OtherKey, MaxTs - 1))}}

\* What a file of such a directory holds.
SmallRecords ==
    {<<>>,
     <<DirTorrent(DirOwner, MaxTs - 1)>>,
     <<DirTorrent(DirOwner, MaxTs)>>,
     <<DirChannel(DirOwner, MaxTs, 0)>>,
     <<DirChannel(DirOwner, MaxTs, 0), DirTorrent(DirOwner, MaxTs)>>,
     <<DirTombstone(DirOwner, DirChannel(DirOwner, MaxTs - 1, 0))>>,
     <<DirTorrent(OtherKey, MaxTs)>>,
     <<DirChannel(OtherKey, MaxTs, 0)>>,
     <<DirTombstone(OtherKey, DirTorrent(OtherKey, MaxTs - 1))>>}

SmallFiles ==
    {[recs |-> r, end |-> e] :
        r \in SmallRecords, e \in {"none", "InvalidSignatureException"}}

SmallWorlds ==
    {[store |-> s, dir |-> d] :
        s \in SmallStores,
        d \in UNION {[seqs -> SmallFiles] : seqs \in SUBSET PayloadTimestamps}}

\* The scenario of spec section 7: a descriptor with start_timestamp 100,
\* local_version 0 and timestamp 150, and a directory with 120.mdblob and
\* 140.mdblob.
ScenarioChannel == FromPayload(DirChannel(DirOwner, 150, 100))

ScenarioTorrent == DirTorrent(DirOwner, 120)

ScenarioUpdate == DirChannel(DirOwner, 140, 100)

ScenarioDir ==
    [n \in {120, 140} |->
        [recs |-> IF n = 120 THEN <<ScenarioTorrent>> ELSE <<ScenarioUpdate>>,
         end |-> "none"]]

\* The scenario, and the directories of the same two names with other contents.
ScenarioWorlds ==
    {[store |-> {ScenarioChannel}, dir |-> d] :
        d \in [{120, 140} ->
                {[recs |-> r, end |-> "none"] :
                    r \in {<<>>, <<ScenarioTorrent>>, <<ScenarioUpdate>>,
                           <<DirTorrent(DirOwner, 140)>>,
                           <<DirChannel(DirOwner, 160, 100)>>}}]}

DirInit ==
    /\ \E w \in SmallWorlds \cup ScenarioWorlds :
        /\ store = w.store
        /\ dir = w.dir
        /\ hist = [start |-> w.store, outs |-> <<>>, runs |-> <<>>]
    /\ pc = "idle"
    /\ channel_id = 0
    /\ listing = <<>>
    /\ pos = 1
    /\ failed = {}
    /\ last = [op |-> "init"]
    /\ revoked = {}
    /\ NoClock

\* process_channel_dir is called on the directory, for its owner.
DirReplayStart ==
    /\ Len(hist.runs) < MaxReplays
    /\ ListDir(DirOwner, DOMAIN dir)
    /\ UNCHANGED <<revoked, dvars, cvars>>

\* The loop takes the next file of the directory.
DirReplayFile ==
    /\ LoopBody
    /\ hist' =
         LET seq == last'.seq
             read == IF last'.res \in {"ingested", "failed"}
                     THEN Append(hist.outs,
                                 [seq |-> seq,
                                  outs |-> Outcomes(store, dir[seq].recs)])
                     ELSE hist.outs
         IN  IF pc' = "idle"
             THEN [hist EXCEPT !.runs = Append(@, [res |-> "aborted",
                                                   clean |-> FALSE,
                                                   store |-> store'])]
             ELSE [hist EXCEPT !.outs = read]
    /\ UNCHANGED <<revoked, dir, cvars>>

\* The loop is over.
DirReplayEnd ==
    /\ LoopEnd
    /\ hist' = [hist EXCEPT !.runs = Append(@, [res |-> "completed",
                                                clean |-> failed = {},
                                                store |-> store])]
    /\ UNCHANGED <<revoked, dir, cvars>>

DirNext == DirReplayStart \/ DirReplayFile \/ DirReplayEnd

DirSpec == DirInit /\ [][DirNext]_vars

(* ----------------------------- DiscreteClock --------------------------- *)

\* DiscreteClock(datastore) with the MiscData table as datastore (db_filename is
\* a file), when no thread is inside tick: clock is seeded from the wall clock.
\* The rows of the datastore are those the earlier objects left.
NewClock ==
    /\ \A t \in Threads : tpc[t] = "idle"
    /\ ticks.objects < MaxObjects
    /\ \E w \in 1..MaxWall :
        /\ clock' = w * 1000
        /\ ticks' = [ticks EXCEPT !.objects = @ + 1, !.seed = w * 1000]
    /\ cpc' = "new"
    /\ UNCHANGED <<value, tpc, reg>>
    /\ UNCHANGED <<svars, dvars>>

\* As InitClock, never taking the clock from the datastore.
InitClockKeepsSeed ==
    /\ cpc = "new"
    /\ value' = IF value = <<>> THEN Str(clock) ELSE value
    /\ cpc' = "ready"
    /\ UNCHANGED <<clock, tpc, reg, ticks>>
    /\ UNCHANGED <<svars, dvars>>

\* init_clock
InitClock ==
    /\ cpc = "new"
    /\ IF value = <<>>
       THEN value' = Str(clock) /\ clock' = clock
       ELSE clock' = ParseInt(value) /\ value' = value
    /\ cpc' = "ready"
    /\ UNCHANGED <<tpc, reg, ticks>>
    /\ UNCHANGED <<svars, dvars>>

\* tick, self.clock += 1: thread t reads self.clock.
TickLoad(t) ==
    /\ cpc = "ready"
    /\ tpc[t] = "idle"
    /\ ticks.calls < MaxTicks
    /\ reg' = [reg EXCEPT ![t] = clock]
    /\ tpc' = [tpc EXCEPT ![t] = "loaded"]
    /\ ticks' = [ticks EXCEPT !.calls = @ + 1]
    /\ UNCHANGED <<clock, value, cpc>>
    /\ UNCHANGED <<svars, dvars>>

\* tick, self.clock += 1: thread t writes the sum to self.clock.
TickStore(t) ==
    /\ tpc[t] = "loaded"
    /\ clock' = reg[t] + 1
    /\ tpc' = [tpc EXCEPT ![t] = "stored"]
    /\ UNCHANGED <<value, cpc, reg, ticks>>
    /\ UNCHANGED <<svars, dvars>>

\* tick, the db_session: thread t writes str(self.clock) to the datastore.
TickPersist(t) ==
    /\ tpc[t] = "stored"
    /\ value' = Str(clock)
    /\ tpc' = [tpc EXCEPT ![t] = "persisted"]
    /\ ticks' = [ticks EXCEPT !.written = Append(@, [v |-> clock, by |-> t])]
    /\ UNCHANGED <<clock, cpc, reg>>
    /\ UNCHANGED <<svars, dvars>>

\* tick, return self.clock
TickReturn(t) ==
    /\ tpc[t] = "persisted"
    /\ tpc' = [tpc EXCEPT ![t] = "idle"]
    /\ ticks' = [ticks EXCEPT !.returned =
                    Append(@, [v |-> clock, from |-> reg[t], by |-> t,
                               object |-> ticks.objects, seed |-> ticks.seed])]
    /\ UNCHANGED <<clock, value, cpc, reg>>
    /\ UNCHANGED <<svars, dvars>>

\* One thread uses the clock: clock objects are made and initialised and tick
\* is called, one call after the other.
ClockNext ==
    \/ NewClock
    \/ InitClock
    \/ TickLoad(1)
    \/ TickStore(1)
    \/ TickPersist(1)
    \/ TickReturn(1)

ClockSpec == Init /\ [][ClockNext]_vars

\* The threads of Threads call tick on the one clock object.
RaceNext ==
    \/ NewClock
    \/ InitClock
    \/ \E t \in Threads : TickLoad(t)
    \/ \E t \in Threads : TickStore(t)
    \/ \E t \in Threads : TickPersist(t)
    \/ \E t \in Threads : TickReturn(t)

RaceSpec == Init /\ [][RaceNext]_vars

(* ------------------------------- claims -------------------------------- *)

\* The channel row process_channel_dir works on, before and after a step.
Replayed(s) == GetChannel(s, channel_id)

\* A step of the loop of process_channel_dir is about to run on file listing[pos].
AtFile == pc = "replay" /\ pos <= Len(listing)

C2_WindowAsClaimed ==
    \A c \in ChannelRows(store) :
        c.start_timestamp <= c.local_version /\ c.local_version <= c.timestamp

\* C2 amended: every channel descriptor satisfies local_version <= timestamp in
\* every reachable state.
C2_CursorBelowTimestamp ==
    \A c \in ChannelRows(store) : c.local_version <= c.timestamp

\* C2 witness: a descriptor whose cursor replay has advanced.
C2_Witness ==
    \E c \in ChannelRows(store) :
        c.local_version > 0 /\ c.local_version = c.timestamp

\* C3 as claimed: replay takes the files in ascending order of their sequence
\* numbers: when a file has been ingested, no file of the listing with a smaller
\* sequence number is still to come (it would be skipped as already ingested).
C3_NumericOrder ==
    (pc = "replay" /\ last.op = "file" /\ last.res = "ingested")
    => \A j \in pos..Len(listing) : BlobSequenceNumber(listing[j]) > last.seq

\* C4 as claimed: a file is one atomic unit: a step of the loop that does not
\* ingest the file and advance the cursor leaves the store as it was.
C4_FileAtomic ==
    [][(AtFile /\ last'.op = "file" /\ last'.res # "ingested")
       => store' = store]_vars

\* C5: a file that fails with InvalidSignatureException does not advance
\* local_version, and the loop goes on to the next file of the listing.
C5_FailureSkipsFile ==
    [][(AtFile /\ last'.op = "file" /\ last'.exc = "InvalidSignatureException")
       => /\ pc' = "replay" /\ listing' = listing /\ pos' = pos + 1
          /\ \A a \in Replayed(store), b \in Replayed(store') :
                b.local_version <= a.local_version]_vars

\* C5 witness: a file inside the window has failed with an invalid signature
\* and another file of the listing is next.
C5_Witness ==
    /\ pc = "replay" /\ last.op = "file" /\ last.res = "failed"
    /\ pos <= Len(listing)
    /\ \E c \in Replayed(store) : c.local_version > 0

\* C6 as claimed: when the loop is over, local_version is below the sequence
\* number of every file that failed during the replay.
C6_CursorBelowFailed ==
    (pc = "replay" /\ pos > Len(listing))
    => \A f \in failed : \A c \in Replayed(store) : c.local_version < f

\* C7 as claimed: no decode or verification failure of a file ends the replay:
\* after a file that failed to decompress, to decode or to verify, with files
\* of the listing still to come, process_channel_dir is still in its loop.
C7_FailureNeverAborts ==
    (/\ last.op = "file"
     /\ last.exc \in {"RuntimeError", "struct.error", "InvalidSignatureException"}
     /\ last.left > 0)
    => pc = "replay"

\* C8: a file whose sequence number is <= start_timestamp, <= local_version or
\* > timestamp of the channel as read for that file is skipped: the store,
\* local_version included, is unchanged.
C8_GatedFileSkipped ==
    [][(/\ AtFile
        /\ \E c \in Replayed(store) :
              LET seq == BlobSequenceNumber(listing[pos]) IN
              \/ seq <= c.start_timestamp
              \/ seq <= c.local_version
              \/ seq > c.timestamp)
       => store' = store /\ last'.res = "skipped" /\ pos' = pos + 1]_vars

\* C8 witness: a file inside [start_timestamp, timestamp] has been skipped
\* because its sequence number is the channel's local_version.
C8_Witness ==
    /\ pc = "replay" /\ last.op = "file" /\ last.res = "skipped"
    /\ \E c \in Replayed(store) :
          /\ last.seq > c.start_timestamp
          /\ last.seq = c.local_version
          /\ last.seq <= c.timestamp

\* The second of two process_payload calls in a row with the same payload.
SecondCall == last.op = "payload" /\ last'.op = "payload" /\ last'.again

\* C9 as claimed: the second of two process_payload calls in a row with the same
\* payload returns GOT_SAME_VERSION and leaves the store unchanged.
C9_SecondIsSameVersion ==
    [][SecondCall => last'.out = GOT_SAME_VERSION /\ store' = store]_vars

\* C9 amended: the second call leaves the store unchanged; it returns
\* GOT_SAME_VERSION when the first call inserted or updated a row or returned
\* GOT_SAME_VERSION itself, NO_ACTION when the first returned NO_ACTION or
\* DELETED_METADATA, and GOT_NEWER_VERSION when the first returned that.
C9_SecondCallNoMutation ==
    [][SecondCall =>
        /\ store' = store
        /\ last'.out =
             IF last.out \in {UNKNOWN_TORRENT, UNKNOWN_CHANNEL, UPDATED_OUR_VERSION,
                              GOT_SAME_VERSION}
             THEN GOT_SAME_VERSION
             ELSE IF last.out \in {NO_ACTION, DELETED_METADATA} THEN NO_ACTION
             ELSE GOT_NEWER_VERSION]_vars

\* C9 witness: a payload that inserted a row was reconciled a second time.
C9_Witness ==
    /\ last.op = "payload" /\ last.again /\ last.out = GOT_SAME_VERSION
    /\ \E r \in store : r.signature = last.payload.signature

\* C10: a DELETED payload removes no row of another public key; when its
\* delete_signature is the signature of a row of another key, process_payload
\* returns NO_ACTION and the store is unchanged.
C10_SelfRevocationOnly ==
    [][(pc = "idle" /\ last'.op = "payload"
        /\ last'.payload.metadata_type = DELETED)
       => /\ \A r \in store :
                r.public_key # last'.payload.public_key => r \in store'
          /\ (\E r \in store : /\ r.signature = last'.payload.delete_signature
                               /\ r.public_key # last'.payload.public_key)
             => (last'.out = NO_ACTION /\ store' = store)]_vars

\* C10 witness: a DELETED payload aimed at another key's row was reconciled.
C10_Witness ==
    /\ last.op = "payload" /\ last.payload.metadata_type = DELETED
    /\ last.out = NO_ACTION
    /\ \E r \in store : /\ r.signature = last.payload.delete_signature
                        /\ r.public_key # last.payload.public_key

\* A process_payload call that reaches update_channel_info (line 246): a
\* CHANNEL_TORRENT payload whose signature is not in the store and that the
\* stale-entry test lets through.
ReachesUpdateChannelInfo ==
    /\ pc = "idle" /\ last'.op = "payload"
    /\ last'.payload.metadata_type = CHANNEL_TORRENT
    /\ \A r \in store : r.signature # last'.payload.signature
    /\ ~IsStale(store, last'.payload)

\* The descriptor c with every field a payload carries taken from p.
Overwritten(c, p) ==
    [metadata_type |-> p.metadata_type, public_key |-> p.public_key,
     id_ |-> p.id_, origin_id |-> p.origin_id, timestamp |-> p.timestamp,
     start_timestamp |-> p.start_timestamp, local_version |-> c.local_version,
     signature |-> p.signature]

\* C11: update_channel_info, given a descriptor c of the payload's public key:
\* a payload newer than c overwrites c's fields and gives UPDATED_OUR_VERSION,
\* one of c's timestamp gives GOT_SAME_VERSION and an older one
\* GOT_NEWER_VERSION, both with the store unchanged; with no descriptor of that
\* key one is created from the payload and the outcome is UNKNOWN_CHANNEL.
C11_ThreeWayComparison ==
    [][ReachesUpdateChannelInfo =>
        LET p == last'.payload
            found == {r \in store : r.metadata_type = CHANNEL_TORRENT
                                    /\ r.public_key = p.public_key}
        IN  IF found = {}
            THEN /\ last'.out = UNKNOWN_CHANNEL
                 /\ store' = store \cup {Overwritten([local_version |-> 0], p)}
            ELSE \A c \in found :
                 /\ p.timestamp > c.timestamp
                    => /\ last'.out = UPDATED_OUR_VERSION
                       /\ store' = (store \ {c}) \cup {Overwritten(c, p)}
                 /\ p.timestamp = c.timestamp
                    => last'.out = GOT_SAME_VERSION /\ store' = store
                 /\ p.timestamp < c.timestamp
                    => last'.out = GOT_NEWER_VERSION /\ store' = store]_vars

\* C11 witness: a payload newer than a descriptor that replay had advanced has
\* overwritten it, and the cursor is as it was.
C11_Witness ==
    /\ last.op = "payload" /\ last.out = UPDATED_OUR_VERSION
    /\ \E c \in ChannelRows(store) :
          c.signature = last.payload.signature /\ c.local_version > 0

\* C12: no two rows of the store share a signature: two rows of the same
\* signature are the same row, and no process_payload, called directly or by a
\* replay, has written a signature that a row of the store carried already.
C12_SignatureUnique ==
    /\ \A a \in store, b \in store : a.signature = b.signature => a = b
    /\ last.op \in {"payload", "file"} => ~last.dup

\* C12 witness: a payload whose signature a row carries has been presented again
\* after a replay advanced the channel, and was turned away.
C12_Witness ==
    /\ last.op = "payload" /\ last.out = GOT_SAME_VERSION
    /\ \E r \in store : r.signature = last.payload.signature
    /\ \E c \in ChannelRows(store) : c.local_version > 0
    /\ Cardinality(store) >= 3

\* C13 as claimed: the calls of tick that threads make on one clock object, their
\* steps interleaved, return values that are all different and write values to
\* the datastore that are all different.
C13_TicksDistinct ==
    /\ \A i, j \in 1..Len(ticks.returned) :
          ticks.returned[i].v = ticks.returned[j].v => i = j
    /\ \A i, j \in 1..Len(ticks.written) :
          ticks.written[i].v = ticks.written[j].v => i = j

\* C14: one thread, the datastore kept over the restarts: every tick returns the
\* counter as it was when tick was called plus one, the values returned are
\* strictly increasing, the datastore holds the value returned last, and the
\* clock of an initialised object is the value returned last.
C14_SequentialTicks ==
    LET r == ticks.returned
        quiet == \A t \in Threads : tpc[t] = "idle"
    IN  /\ \A i \in 1..Len(r) : r[i].v = r[i].from + 1
        /\ \A i, j \in 1..Len(r) : i < j => r[i].v < r[j].v
        /\ (quiet /\ r # <<>>) => value = Str(r[Len(r)].v)
        /\ (quiet /\ r # <<>> /\ cpc = "ready") => clock = r[Len(r)].v

\* C14 witness: tick has returned on a clock object that was seeded below the
\* value an earlier object's tick had returned.
C14_Witness ==
    \E i \in 1..(Len(ticks.returned) - 1) :
        /\ ticks.returned[i + 1].object > ticks.returned[i].object
        /\ ticks.returned[i + 1].seed < ticks.returned[i].v
        /\ ticks.returned[i + 1].v = ticks.returned[i].v + 1

\* C15 as claimed: a step of the replay of a channel's directory leaves the rows
\* of every other channel whose descriptor is in the store as they were: no
\* descriptor or entry of that channel's public key is created, changed or
\* deleted.
C15_ReplayTouchesOwnChannelOnly ==
    [][(AtFile /\ last'.op = "file")
       => \A b \in ChannelRows(store) :
             b.public_key # channel_id
             => {r \in store' : r.public_key = b.public_key}
                = {r \in store : r.public_key = b.public_key}]_vars

\* C16 as claimed: a replay of a directory that follows at once a replay of it
\* that completed with no failing file ends with the store the first one left.
C16_ReplayIdempotent ==
    (/\ Len(hist.runs) >= 2
     /\ hist.runs[1].res = "completed" /\ hist.runs[1].clean)
    => hist.runs[2].store = hist.runs[1].store

\* The first replay of the scenario's directory from the scenario's store has
\* returned.
ScenarioDone ==
    /\ hist.start = {ScenarioChannel} /\ dir = ScenarioDir
    /\ Len(hist.runs) >= 1

\* C17: the scenario ends with local_version = 140 and every other field of the
\* descriptor as it was, with exactly one record more, the torrent of
\* 120.mdblob, and with GOT_NEWER_VERSION for the channel payload of 140.mdblob.
C17_Scenario ==
    ScenarioDone =>
        LET end == hist.runs[1].store IN
        /\ hist.runs[1].res = "completed"
        /\ ChannelRows(end) = {[ScenarioChannel EXCEPT !.local_version = 140]}
        /\ end \ ChannelRows(end) = {FromPayload(ScenarioTorrent)}
        /\ Cardinality(end) = Cardinality(hist.start) + 1
        /\ hist.outs = <<[seq |-> 120, outs |-> <<UNKNOWN_TORRENT>>],
                         [seq |-> 140, outs |-> <<GOT_NEWER_VERSION>>]>>

\* C17 witness: the scenario has run to its end.
C17_Witness ==
    /\ ScenarioDone /\ pc = "idle"
    /\ \E c \in ChannelRows(store) : c.local_version = 140

\* C18: process_payload on a payload p that is no tombstone and whose signature
\* is not in the store, when a channel descriptor c with p's public key and
\* id_ = p.origin_id is there: with c.local_version # 0 and
\* p.timestamp <= c.local_version the outcome is NO_ACTION and the store is
\* unchanged; with c.local_version = 0 p is dispatched by its kind: a torrent is
\* inserted (UNKNOWN_TORRENT) and a channel payload goes to update_channel_info.
C18_StaleEntryGating ==
    [][(/\ pc = "idle" /\ last'.op = "payload"
        /\ last'.payload.metadata_type # DELETED
        /\ \A r \in store : r.signature # last'.payload.signature)
       => LET p == last'.payload IN
          \A c \in {r \in store : /\ r.metadata_type = CHANNEL_TORRENT
                                  /\ r.public_key = p.public_key
                                  /\ r.id_ = p.origin_id} :
             /\ (c.local_version # 0 /\ p.timestamp <= c.local_version)
                => (last'.out = NO_ACTION /\ store' = store)
             /\ c.local_version = 0
                => IF p.metadata_type = REGULAR_TORRENT
                   THEN /\ last'.out = UNKNOWN_TORRENT
                        /\ \E r \in store' \ store : r.signature = p.signature
                   ELSE last'.out \in {UPDATED_OUR_VERSION, GOT_SAME_VERSION,
                                       GOT_NEWER_VERSION}]_vars

\* C18 witness: a torrent payload not in the store, of the timestamp that is the
\* local_version of its channel, was turned away with NO_ACTION.
C18_Witness ==
    /\ last.op = "payload" /\ last.out = NO_ACTION
    /\ last.payload.metadata_type = REGULAR_TORRENT
    /\ \A r \in store : r.signature # last.payload.signature
    /\ \E c \in ChannelRows(store) :
          /\ c.public_key = last.payload.public_key
          /\ c.id_ = last.payload.origin_id
          /\ c.local_version = last.payload.timestamp

\* C19: an entry that a tombstone deleted while its channel's local_version was
\* not 0 and not below the entry's timestamp is not in the store again for as
\* long as the channel descriptor is there, whatever payloads process_payload
\* and the replays are given.
C19_NoReinjection ==
    \A x \in revoked : \A r \in store : r.signature # x.signature

\* C19 witness: the payload of a revoked entry has been presented again and was
\* turned away.
C19_Witness ==
    /\ last.op = "payload" /\ last.out = NO_ACTION
    /\ last.payload.metadata_type = REGULAR_TORRENT
    /\ \E x \in revoked : x.signature = last.payload.signature

\* C20 as claimed: while process_channel_dir is in its loop the descriptor of
\* channel_id is in the store, and no file step ends with the exception of a
\* descriptor that is missing (AttributeError on None) or was deleted in the
\* file's session (OperationWithDeletedObjectError).
C20_DescriptorSurvivesReplay ==
    /\ pc = "replay" => Replayed(store) # {}
    /\ last.op = "file"
       => last.exc \notin {"AttributeError", "OperationWithDeletedObjectError"}
====
